---- MODULE Spec2Model ----
(***************************************************************************)
(* A model of src/repl.py: the raw-mode line editor (tty_raw / tty_edit),  *)
(* its buffer operations, the history list and the completion preview      *)
(* loop.  Characters are code points (chr(9) is 9); a string is a sequence *)
(* of code points, so the result of read_decode(fd, 1) is <<>> (zero       *)
(* bytes) or <<c>>.  Python indices are 0-based, sequences here 1-based.   *)
(***************************************************************************)
EXTENDS Integers, Sequences, FiniteSets, TLC

\* ------------------------------------------------------------- bounds
\* Longest buffer the user types (inserts are cut off at this length).
MaxLen == 2
\* Line-read calls the driver makes from a freshly loaded module.
MaxCalls == 1
\* Longest line the user types when the history is at its capacity.
MaxFullLen == 1
\* History-older presses counted exactly at the start of a session.
MaxUps == 4
\* Tab presses counted exactly in one completion preview.
MaxTabs == 4
\* Longest line the user types on the terminals of every kind.
MaxWideLen == 3
\* Longest line the user types where single keys are observed.
MaxKeysLen == 3
\* Iterations after which a loop of refresh_single_line is given up.
LoopFuel == 100

\* ----------------------------------------------------- program constants
HISTORY_MAX_LENGTH == 100

TAB == 9
ENTER == 13
CTRL_C == 3
BACKSPACE == 127
CTRL_H == 8
CTRL_D == 4
CTRL_T == 20
CTRL_B == 2
CTRL_F == 6
CTRL_P == 16
CTRL_N == 14
ESC == 27
CTRL_U == 21
CTRL_K == 11
CTRL_A == 1
CTRL_E == 5
CTRL_L == 12
CTRL_W == 23
\* ' ' (the word separator of tty_edit_delete_previous_word)
SPACE == 32
\* '[' and 'O', the second byte of a CSI and of an SS3 sequence
LBRACKET == 91
LETTER_O == 79
\* '~', '0', '3', '9'
TILDE == 126
DIGIT_0 == 48
DIGIT_3 == 51
DIGIT_9 == 57
\* 'A' 'B' 'C' 'D' 'H' 'F'
LETTER_A == 65
LETTER_B == 66
LETTER_C == 67
LETTER_D == 68
LETTER_H == 72
LETTER_F == 70
\* 'a', a printable character that no branch of tty_edit handles
LOWER_A == 97
\* 'R' and ';' of the cursor-position reply ESC [ rows ; cols R
LETTER_R == 82
SEMICOLON == 59
\* '1', '2', '4', '5', '8'
DIGIT_1 == 49
DIGIT_2 == 50
DIGIT_4 == 52
DIGIT_5 == 53
DIGIT_8 == 56
\* 0xC3, a byte that is no UTF-8 text on its own
BYTE_C3 == 195
\* The lengths of the queries "\x1b[6n" and "\x1b[999C"
LEN_QUERY == 4
LEN_RIGHT == 6

\* The printable characters the user types.
Chars == {LOWER_A, SPACE}

\* ------------------------------------------------------------- helpers
Min(a, b) == IF a < b THEN a ELSE b

\* Python s[a:b] for 0 <= a, 0 <= b.
Slice(s, a, b) == SubSeq(s, a + 1, Min(b, Len(s)))

\* Python s[a:] for 0 <= a.
SliceFrom(s, a) == SubSeq(s, a + 1, Len(s))

\* ------------------------------------------------- the buffer operations
\* Each takes and returns the (buf, pos) part of a TTYState.

tty_edit_insert(s, c) ==
    IF s.pos = Len(s.buf)
    THEN [buf |-> s.buf \o <<c>>, pos |-> s.pos + 1]
    ELSE [buf |-> Slice(s.buf, 0, s.pos) \o <<c>> \o SliceFrom(s.buf, s.pos),
          pos |-> s.pos + 1]

tty_edit_move_left(s) ==
    IF s.pos > 0 THEN [s EXCEPT !.pos = s.pos - 1] ELSE s

MoveRightUnguarded(s) == [s EXCEPT !.pos = s.pos + 1]

tty_edit_move_right(s) ==
    IF s.pos # Len(s.buf) THEN [s EXCEPT !.pos = s.pos + 1] ELSE s

tty_edit_backspace(s) ==
    IF s.pos > 0 /\ Len(s.buf) > 0
    THEN [buf |-> Slice(s.buf, 0, s.pos - 1) \o SliceFrom(s.buf, s.pos),
          pos |-> s.pos - 1]
    ELSE s

tty_edit_delete(s) ==
    IF Len(s.buf) > 0 /\ Len(s.buf) > s.pos
    THEN [s EXCEPT !.buf = Slice(s.buf, 0, s.pos) \o SliceFrom(s.buf, s.pos + 1)]
    ELSE s

tty_edit_move_home(s) ==
    IF s.pos > 0 THEN [s EXCEPT !.pos = 0] ELSE s

tty_edit_move_end(s) ==
    IF s.pos # Len(s.buf) THEN [s EXCEPT !.pos = Len(s.buf)] ELSE s

\* The swap with the cursor moved right in every case.
SwapAlwaysAdvance(s) ==
    IF 0 < s.pos /\ s.pos < Len(s.buf)
    THEN [buf |-> Slice(s.buf, 0, s.pos - 1) \o <<s.buf[s.pos + 1], s.buf[s.pos]>>
                    \o SliceFrom(s.buf, s.pos + 1),
          pos |-> s.pos + 1]
    ELSE s

tty_swap_current_with_previous_character(s) ==
    IF 0 < s.pos /\ s.pos < Len(s.buf)
    THEN LET char1 == s.buf[s.pos]          \* buf[pos - 1]
             char2 == s.buf[s.pos + 1]      \* buf[pos]
             nb == Slice(s.buf, 0, s.pos - 1) \o <<char2, char1>>
                     \o SliceFrom(s.buf, s.pos + 1)
         IN  [buf |-> nb,
              pos |-> IF s.pos # Len(nb) - 1 THEN s.pos + 1 ELSE s.pos]
    ELSE s

tty_delete_whole_line(s) == [buf |-> <<>>, pos |-> 0]

tty_delete_from_position_to_end(s) == [s EXCEPT !.buf = Slice(s.buf, 0, s.pos)]

\* The first loop of tty_edit_delete_previous_word: step left over spaces.
RECURSIVE SkipSpaces(_, _)
SkipSpaces(b, p) ==
    IF p > 0 /\ b[p] = SPACE THEN SkipSpaces(b, p - 1) ELSE p

\* Its second loop: step left over the non-space run.
RECURSIVE SkipWord(_, _)
SkipWord(b, p) ==
    IF p > 0 /\ b[p] # SPACE THEN SkipWord(b, p - 1) ELSE p

tty_edit_delete_previous_word(s) ==
    LET old == s.pos
        p == SkipWord(s.buf, SkipSpaces(s.buf, s.pos))
    IN  [buf |-> Slice(s.buf, 0, p) \o SliceFrom(s.buf, old), pos |-> p]

\* ------------------------------------------------------------ the history
AddHistoryNoCap(line, h) ==
    IF Len(h) > 0 /\ h[1] = line THEN h ELSE <<line>> \o h

\* tty_add_history: the new value of the global history.
tty_add_history(line, h) ==
    IF Len(h) > 0 /\ h[1] = line
    THEN h
    ELSE IF Len(h) = HISTORY_MAX_LENGTH
         THEN <<line>> \o SliceFrom(h, 1)
         ELSE <<line>> \o h

\* The index tty_edit_history_next moves the global history_index to.
\* The index moved to the older entry without the check against the end of
\* the list.
NextIndexUnclamped(h, hi, previous) ==
    IF ~previous
    THEN IF hi > 0 THEN hi - 1 ELSE 0
    ELSE hi + 1

NextHistoryIndex(h, hi, previous) ==
    IF ~previous
    THEN IF hi > 0 THEN hi - 1 ELSE 0
    ELSE IF hi < Len(h) - 1 THEN hi + 1 ELSE Len(h) - 1

\* tty_edit_history_next: the new buf, pos and history_index; err is TRUE
\* when history[history_index] is read outside the list (IndexError).
tty_edit_history_next(s, h, hi, previous) ==
    IF Len(h) > 1
    THEN LET ni == NextHistoryIndex(h, hi, previous)
         IN  IF ni >= Len(h)
             THEN [buf |-> s.buf, pos |-> s.pos, history_index |-> ni, err |-> TRUE]
             ELSE [buf |-> h[ni + 1], pos |-> Len(h[ni + 1]),
                   history_index |-> ni, err |-> FALSE]
    ELSE [buf |-> s.buf, pos |-> s.pos, history_index |-> hi, err |-> FALSE]

\* --------------------------------------------------------- the completion
\* The candidate lists the registered completion source may return.
CandidateLists ==
    {<<>>, << <<LOWER_A>> >>, << <<LOWER_A>>, <<LOWER_A, SPACE>> >>}

PreviewNoRestore(s, cv, i) ==
    IF i < Len(cv) THEN [buf |-> cv[i + 1], pos |-> Len(cv[i + 1])] ELSE s

\* One rendering of the preview loop of complete_line: with i < N the
\* candidate is put in state.buf, drawn, and state.buf and state.pos are put
\* back from saved; the value is the (buf, pos) the loop then reads a key with.
complete_preview(s, cv, i) ==
    IF i < Len(cv)
    THEN LET saved == s
             shown == [buf |-> cv[i + 1], pos |-> Len(cv[i + 1])]
         IN  [buf |-> saved.buf, pos |-> saved.pos]
    ELSE s

CycleModN(i, n) == (i + 1) % n

\* The index after a Tab in the preview loop with n candidates.
complete_cycle(i, n) == (i + 1) % (n + 1)

\* ------------------------------------------------------- the terminal mode
\* Terminal attributes are the set of mode flags that are on.
Cooked ==
    {"BRKINT", "ICRNL", "INPCK", "ISTRIP", "IXON", "OPOST", "ECHO", "ICANON",
     "IEXTEN", "ISIG"}

\* The raw configuration enable_raw_mode derives from the captured one.
MakeRaw(attrs) ==
    (attrs \ {"BRKINT", "ICRNL", "INPCK", "ISTRIP", "IXON", "OPOST", "ECHO",
              "ICANON", "IEXTEN", "ISIG"}) \cup {"CS8"}

\* The prompt of the driver loop, "$> ".
Prompts == {<<36, 62, 32>>}

\* ------------------------------------------------------ the width probe
\* re.findall(r'\d+', s) from index k on, run being the digits collected.
RECURSIVE FindAllDigits(_, _, _)
FindAllDigits(s, k, run) ==
    IF k > Len(s)
    THEN IF run = <<>> THEN <<>> ELSE <<run>>
    ELSE IF DIGIT_0 <= s[k] /\ s[k] <= DIGIT_9
         THEN FindAllDigits(s, k + 1, Append(run, s[k]))
         ELSE (IF run = <<>> THEN <<>> ELSE <<run>>)
              \o FindAllDigits(s, k + 1, <<>>)

\* int(s) for a string of decimal digits.
RECURSIVE IntOfDigits(_)
IntOfDigits(s) ==
    IF s = <<>>
    THEN 0
    ELSE IntOfDigits(SubSeq(s, 1, Len(s) - 1)) * 10 + (s[Len(s)] - DIGIT_0)

\* The index of the byte of reply r that ends the read loop of
\* get_cursor_position: the first 'R' or undecodable byte, or Len(r) + 1 when
\* the input ends first (read_decode gives '').
RECURSIVE ReadStop(_, _)
ReadStop(r, k) ==
    IF k > Len(r) \/ r[k] = LETTER_R \/ r[k] > 127
    THEN k
    ELSE ReadStop(r, k + 1)

\* get_cursor_position: written is what write_flush gives for the query and r
\* the bytes the terminal then sends.  The result is -1, the column field of
\* the reply as a string, or an exception (UnicodeDecodeError of read_decode,
\* IndexError of buf[1]).
get_cursor_position(written, r) ==
    LET k == ReadStop(r, 1)
        b == SubSeq(r, 1, k - 1)
        rows_cols == FindAllDigits(b, 1, <<>>)
        Minus1 == [kind |-> "int", val |-> <<>>]
    IN  IF written # LEN_QUERY THEN Minus1
        ELSE IF k <= Len(r) /\ r[k] > 127 THEN [kind |-> "raise", val |-> <<>>]
        ELSE IF b = <<>> THEN Minus1
        ELSE IF b[1] # ESC THEN Minus1
        ELSE IF Len(b) < 2 THEN [kind |-> "raise", val |-> <<>>]
        ELSE IF b[2] # LBRACKET THEN Minus1
        ELSE IF Len(rows_cols) # 2 THEN Minus1
        ELSE [kind |-> "str", val |-> rows_cols[2]]

\* get_columns on terminal t.  The window-size query gives bytes, which never
\* equal 0, or raises OSError: width stays 0 either way.  An exception on the
\* way reaches "except GotoException():", which names an instance and catches
\* nothing, and "finally: return int(width)" returns the width assigned so
\* far.  When both replies parse, width and start are strings, and the
\* restore either is skipped or raises TypeError on width - start: int(width)
\* is returned both ways.
get_columns(t) ==
    LET start == get_cursor_position(t.w1, t.r1)
        width == get_cursor_position(t.w2, t.r2)
    IN  IF ~t.ioctl THEN 0
        ELSE IF start.kind # "str" THEN 0
        ELSE IF t.wr # LEN_RIGHT THEN 0
        ELSE IF width.kind = "raise" THEN 0
        ELSE IF width.kind = "int" THEN -1
        ELSE IntOfDigits(width.val)

\* --------------------------------------------------------- the renderer
\* The first loop of refresh_single_line on window w = (i, length, pos), np
\* the length of the prompt: while np + pos >= cols, one step to the right.
RECURSIVE ScrollLoop(_, _, _, _)
ScrollLoop(w, np, cl, fuel) ==
    IF np + w.pos >= cl
    THEN IF fuel = 0
         THEN [w EXCEPT !.done = FALSE]
         ELSE ScrollLoop([w EXCEPT !.i = w.i + 1, !.length = w.length - 1,
                                   !.pos = w.pos - 1], np, cl, fuel - 1)
    ELSE w

\* The second loop: while np + length > cols, one character less.
RECURSIVE TrimLoop(_, _, _, _)
TrimLoop(w, np, cl, fuel) ==
    IF np + w.length > cl
    THEN IF fuel = 0
         THEN [w EXCEPT !.done = FALSE]
         ELSE TrimLoop([w EXCEPT !.length = w.length - 1], np, cl, fuel - 1)
    ELSE w

\* The window without the second loop.
RefreshNoTrim(p, b, ps, cl) ==
    ScrollLoop([i |-> 0, length |-> Len(b), pos |-> ps, done |-> TRUE],
               Len(p), cl, LoopFuel)

\* refresh_single_line on prompt p, buffer b, cursor ps and cl columns: the
\* window it draws is b[i : i + length] after the prompt, with the cursor
\* moved pos + len(p) to the right; done: both loops ended.
refresh_single_line(p, b, ps, cl) ==
    LET w1 == ScrollLoop([i |-> 0, length |-> Len(b), pos |-> ps,
                          done |-> TRUE], Len(p), cl, LoopFuel)
    IN  IF w1.done THEN TrimLoop(w1, Len(p), cl, LoopFuel) ELSE w1

\* A cursor-position reply with the cursor at row 1 and the given column.
Reply(col) == <<ESC, LBRACKET, DIGIT_1, SEMICOLON>> \o col \o <<LETTER_R>>

\* An 80-column terminal that answers every query.
Terminal80 ==
    [ioctl |-> TRUE, w1 |-> LEN_QUERY, r1 |-> Reply(<<DIGIT_1>>),
     wr |-> LEN_RIGHT, w2 |-> LEN_QUERY, r2 |-> Reply(<<DIGIT_8, DIGIT_0>>)]

\* The terminals of the driver loop.
Terminals == {Terminal80}

\* What a terminal sends after a cursor-position query: a reply with the
\* cursor in column 1, 4 or 80, nothing, ESC alone, text that is no reply, a
\* reply with one number, a byte that does not decode.
ProbeReplies ==
    {Reply(<<DIGIT_1>>), Reply(<<DIGIT_4>>), Reply(<<DIGIT_8, DIGIT_0>>),
     <<>>, <<ESC>>, <<LOWER_A, LETTER_R>>,
     <<ESC, LBRACKET, DIGIT_1, LETTER_R>>, <<BYTE_C3>>}

\* Terminals of every kind: the window-size query answers or raises OSError,
\* each of the three writes is whole or short, each query gets one of
\* ProbeReplies.
AnyTerminals ==
    [ioctl : BOOLEAN, w1 : {LEN_QUERY, 0}, r1 : ProbeReplies,
     wr : {LEN_RIGHT, 0}, w2 : {LEN_QUERY, 0}, r2 : ProbeReplies]

\* The prompts of a caller of tty_raw: none, and "$> ".
AnyPrompts == {<<>>, <<36, 62, 32>>}

\* -------------------------------------------------------------- the state
VARIABLES
    pc,                   \* where the process is: "idle" (in the caller),
                          \* "edit" (tty_edit blocked in read_decode),
                          \* "complete" (complete_line blocked in read_decode),
                          \* "exited" (the process has ended)
    ret,                  \* how the last tty_raw call ended and what it returned
    calls_left,           \* line-read calls the driver still makes
    rawmode,              \* global rawmode
    origin_termios,       \* global origin_termios
    is_atexit_registered, \* global is_atexit_registered
    termios_attr,         \* the attributes of the terminal device
    history,              \* global history, most recent first
    history_index,        \* global history_index
    completion_callback,  \* whether a completion source is registered
    buf, pos, first,      \* state.buf, state.pos, state.first
    prompt, cols,         \* state.prompt, state.cols
    probe,                \* the terminal as get_columns of this session found it
    cvec, ci, saved,      \* complete_line: tty_completions.cvec, i, saved
    hist0,                \* history as it was when tty_edit was entered
    committed,            \* the lines committed with Enter, most recent first
    ups,                  \* history-older presses, while the session has read
                          \* nothing else (-1: something else, or over MaxUps)
    bsaved,               \* <<B>>: the buffer B at the first browse since the
                          \* last other key; <<>>: not browsing
    tabs,                 \* Tab presses since the first preview (-1: over
                          \* MaxTabs, or no preview)
    orig,                 \* (buf, pos) when TAB last started complete_line
    comp_exit,            \* how complete_line ended, when the last key read
                          \* ended it: "escape", "other"; else "none"
    last                  \* the bytes the last iteration of a read loop read,
                          \* and the buffer, cursor and history before it
                          \* (Unobserved where single keys are not observed)

term == <<rawmode, origin_termios, is_atexit_registered, termios_attr>>
hist == <<history, history_index>>
sess == <<buf, pos, first, prompt, cols, probe>>
comp == <<cvec, ci, saved, tabs, orig, comp_exit>>
vars == <<pc, ret, calls_left, term, hist, completion_callback, sess, comp,
          hist0, committed, ups, bsaved, last>>

st == [buf |-> buf, pos |-> pos]

\* The window refresh_line draws in this state of the session.
refresh_line == refresh_single_line(prompt, buf, pos, cols)

NoSaved == [buf |-> <<>>, pos |-> 0]

\* Single keys are not observed.
Unobserved == [keys |-> <<>>, buf |-> <<>>, pos |-> -1, history |-> <<>>]

\* No key read yet.
NoKey == [keys |-> <<>>, buf |-> <<>>, pos |-> 0, history |-> <<>>]

\* The iteration read the bytes k.
Saw(k) ==
    last' = IF last = Unobserved
            THEN Unobserved
            ELSE [keys |-> k, buf |-> buf, pos |-> pos, history |-> history]

\* No session, no probe.
NoProbe ==
    [ioctl |-> FALSE, w1 |-> 0, r1 |-> <<>>, wr |-> 0, w2 |-> 0, r2 |-> <<>>]

NoRet == [kind |-> "none", line |-> <<>>, ok |-> FALSE, how |-> "none"]

\* A history of n committed lines, "a" and " " in turn, the most recent "a".
Alt(n) == [k \in 1..n |-> IF k % 2 = 1 THEN <<LOWER_A>> ELSE <<SPACE>>]

\* One entry short of the capacity: HISTORY_MAX_LENGTH - 1 commits.
NearFull == Alt(HISTORY_MAX_LENGTH - 1)

\* At the capacity: one more commit, of " ".
Full == <<<<SPACE>>>> \o NearFull

\* The states of the process between two line-read calls that the driver
\* starts from, each with the keys that lead to it from a freshly loaded
\* module (history = [], history_index = 0):
\*   - the freshly loaded module itself;
\*   - "a" Enter;
\*   - "a" Enter, " " Enter;
\*   - "a" Enter, Enter (an empty line committed);
\*   - "a" Enter, then Up, Ctrl-U, " ", Enter: the global history_index stays
\*     at 1, where the Up of the second session left it.
StartStates ==
    {[history |-> <<>>, history_index |-> 0, calls |-> MaxCalls],
     [history |-> <<<<LOWER_A>>>>, history_index |-> 0, calls |-> 1],
     [history |-> <<<<SPACE>>, <<LOWER_A>>>>, history_index |-> 0, calls |-> 1],
     [history |-> <<<<>>, <<LOWER_A>>>>, history_index |-> 0, calls |-> 1],
     [history |-> <<<<SPACE>>, <<LOWER_A>>>>, history_index |-> 1, calls |-> 1]}

\* The same at the capacity of the history: HISTORY_MAX_LENGTH - 1 and
\* HISTORY_MAX_LENGTH lines committed by typing each and pressing Enter.
FullStartStates ==
    {[history |-> NearFull, history_index |-> 0, calls |-> 1],
     [history |-> Full, history_index |-> 0, calls |-> 1]}

\* The process in start state s, before the driver's next call: the lines of
\* s.history are the lines committed so far; earlier calls, if any, have
\* registered the exit hook and captured the cooked attributes; a completion
\* source is registered (tty_set_completion_callback, as example.py does).
InitWith(s, l) ==
    /\ last = l
    /\ pc = "idle"
    /\ ret = NoRet
    /\ history = s.history
    /\ history_index = s.history_index
    /\ calls_left = s.calls
    /\ rawmode = FALSE
    /\ origin_termios = (IF s.history = <<>> THEN {} ELSE Cooked)
    /\ is_atexit_registered = (s.history # <<>>)
    /\ termios_attr = Cooked
    /\ completion_callback = TRUE
    /\ buf = <<>> /\ pos = 0 /\ first = TRUE
    /\ prompt = <<>> /\ cols = 0 /\ probe = NoProbe
    /\ cvec = <<>> /\ ci = 0 /\ saved = NoSaved /\ tabs = -1
    /\ orig = NoSaved /\ comp_exit = "none"
    /\ hist0 = s.history
    /\ committed = s.history
    /\ ups = -1
    /\ bsaved = <<>>

\* The same, single keys not observed.
InitFrom(s) == InitWith(s, Unobserved)

Init == \E s \in StartStates : InitFrom(s)

InitFull == \E s \in FullStartStates : InitFrom(s)

\* ------------------------------------------------------ leaving the call
\* The locals of tty_edit and complete_line are gone once the call is left.
DropLocals ==
    /\ buf' = <<>> /\ pos' = 0 /\ first' = TRUE
    /\ prompt' = <<>> /\ cols' = 0 /\ probe' = NoProbe
    /\ cvec' = <<>> /\ ci' = 0 /\ saved' = NoSaved /\ tabs' = -1
    /\ orig' = NoSaved /\ comp_exit' = "none"
    /\ ups' = -1 /\ bsaved' = <<>>

\* disable_raw_mode
disable_raw_mode ==
    /\ termios_attr' = IF rawmode THEN origin_termios ELSE termios_attr
    /\ rawmode' = FALSE
    /\ UNCHANGED <<origin_termios, is_atexit_registered>>

\* tty_edit returns (line, ok) and tty_raw disables raw mode and returns it.
Return(line, ok, how) ==
    /\ pc' = "idle"
    /\ ret' = [kind |-> "return", line |-> line, ok |-> ok, how |-> how]
    /\ disable_raw_mode
    /\ DropLocals

\* An exception leaves tty_edit and tty_raw: nothing on the way catches it, and
\* disable_raw_mode at the end of tty_raw is not run.
Raise(how) ==
    /\ pc' = "idle"
    /\ ret' = [kind |-> "raise", line |-> <<>>, ok |-> FALSE, how |-> how]
    /\ UNCHANGED term
    /\ DropLocals

\* ---------------------------------------------------------------- the call
\* tty_raw up to the first read of tty_edit: enable_raw_mode (a failure when
\* stdin is no terminal), then the prologue of tty_edit: the session state,
\* the scratch entry pushed on the history, the prompt written.
TtyRawOn(ps, ts) ==
    /\ pc = "idle"
    /\ calls_left > 0
    /\ calls_left' = calls_left - 1
    /\ \E isatty \in BOOLEAN, written \in BOOLEAN, p \in ps, t \in ts :
         IF ~isatty
         THEN /\ pc' = "idle"
              /\ ret' = [kind |-> "return", line |-> <<>>, ok |-> FALSE,
                         how |-> "notty"]
              /\ UNCHANGED <<term, hist, sess, comp, hist0, committed, ups, bsaved>>
         ELSE /\ hist0' = history
              /\ history' = tty_add_history(<<>>, history)
              /\ UNCHANGED <<history_index, committed>>
              /\ IF ~written
                 THEN \* write_flush(stdout_fd, prompt) != len(prompt)
                      /\ pc' = "idle"
                      /\ ret' = [kind |-> "return", line |-> <<>>, ok |-> FALSE,
                                 how |-> "write"]
                      /\ origin_termios' = termios_attr
                      /\ termios_attr' = termios_attr
                      /\ rawmode' = FALSE
                      /\ is_atexit_registered' = TRUE
                      /\ UNCHANGED <<sess, comp, ups, bsaved>>
                 ELSE /\ pc' = "edit"
                      /\ ret' = NoRet
                      /\ origin_termios' = termios_attr
                      /\ termios_attr' = MakeRaw(termios_attr)
                      /\ rawmode' = TRUE
                      /\ is_atexit_registered' = TRUE
                      /\ buf' = <<>> /\ pos' = 0 /\ first' = TRUE
                      /\ prompt' = p /\ cols' = get_columns(t) /\ probe' = t
                      /\ ups' = 0 /\ bsaved' = <<>>
                      /\ UNCHANGED comp
    /\ last' = (IF last = Unobserved THEN Unobserved ELSE NoKey)
    /\ UNCHANGED completion_callback

\* The driver loop of __main__: its prompt, on an 80-column terminal.
TtyRaw == TtyRawOn(Prompts, Terminals)

\* A caller with any prompt on a terminal of any kind.
TtyRawAny == TtyRawOn(AnyPrompts, AnyTerminals)

\* The process ends (the driver loop is over, or an exception was not caught):
\* the exit hook tty_exit, when registered, calls disable_raw_mode.
ProcessExit ==
    /\ pc = "idle"
    /\ pc' = "exited"
    /\ IF is_atexit_registered THEN disable_raw_mode ELSE UNCHANGED term
    /\ UNCHANGED <<ret, calls_left, hist, completion_callback, sess, comp,
                   hist0, committed, ups, bsaved, last>>

\* ------------------------------------------------------- the edit loop
\* What a key of the edit loop leaves alone when it only edits the buffer.
EditFrame ==
    /\ orig' = NoSaved /\ comp_exit' = "none"
    /\ UNCHANGED <<pc, ret, calls_left, term, completion_callback, prompt, cols,
                   probe,
                   cvec, ci, saved, tabs, hist0, committed>>

\* A key that changes buf and pos only.
Edited(ns) ==
    /\ buf' = ns.buf /\ pos' = ns.pos
    /\ ups' = -1 /\ bsaved' = <<>>
    /\ UNCHANGED <<first, hist>>
    /\ EditFrame

\* read_decode returns no byte: return '', False.
ReadZero ==
    /\ pc = "edit"
    /\ Return(<<>>, FALSE, "eof")
    /\ Saw(<<>>)
    /\ UNCHANGED <<calls_left, hist, completion_callback, hist0, committed>>

\* The byte read is no UTF-8 text on its own (any byte over 0x7f):
\* bytes.decode raises UnicodeDecodeError in read_decode.
ReadUndecodable ==
    /\ pc \in {"edit", "complete"}
    /\ Raise("decode")
    /\ Saw(<<BYTE_C3>>)
    /\ UNCHANGED <<calls_left, hist, completion_callback, hist0, committed>>

\* ENTER: history = history[1:], tty_add_history(state.buf), return '', True.
KeyEnter ==
    /\ pc = "edit"
    /\ history' = tty_add_history(buf, SliceFrom(history, 1))
    /\ committed' = <<buf>> \o committed
    /\ Return(<<>>, TRUE, "enter")
    /\ Saw(<<ENTER>>)
    /\ UNCHANGED <<calls_left, history_index, completion_callback, hist0>>

\* CTRL+C: disable_raw_mode(sys.stdin), exit(0).
KeyCtrlC ==
    /\ pc = "edit"
    /\ pc' = "exited"
    /\ ret' = [kind |-> "exit", line |-> <<>>, ok |-> FALSE, how |-> "interrupt"]
    /\ disable_raw_mode
    /\ DropLocals
    /\ Saw(<<CTRL_C>>)
    /\ UNCHANGED <<calls_left, hist, completion_callback, hist0, committed>>

KeyBackspace ==
    /\ pc = "edit"
    /\ \E c \in {BACKSPACE, CTRL_H} : Edited(tty_edit_backspace(st)) /\ Saw(<<c>>)

\* CTRL+D: delete on a non-empty buffer, else return '', False.
KeyCtrlD ==
    /\ pc = "edit"
    /\ Saw(<<CTRL_D>>)
    /\ IF Len(buf) > 0
       THEN Edited(tty_edit_delete(st))
       ELSE /\ Return(<<>>, FALSE, "ctrld")
            /\ UNCHANGED <<calls_left, hist, completion_callback, hist0, committed>>

KeyCtrlT ==
    /\ pc = "edit"
    /\ Edited(tty_swap_current_with_previous_character(st))
    /\ Saw(<<CTRL_T>>)

KeyCtrlB ==
    /\ pc = "edit"
    /\ Edited(tty_edit_move_left(st))
    /\ Saw(<<CTRL_B>>)

KeyCtrlF ==
    /\ pc = "edit"
    /\ Edited(tty_edit_move_right(st))
    /\ Saw(<<CTRL_F>>)

KeyCtrlU ==
    /\ pc = "edit"
    /\ Edited(tty_delete_whole_line(st))
    /\ Saw(<<CTRL_U>>)

KeyCtrlK ==
    /\ pc = "edit"
    /\ Edited(tty_delete_from_position_to_end(st))
    /\ Saw(<<CTRL_K>>)

KeyCtrlA ==
    /\ pc = "edit"
    /\ Edited(tty_edit_move_home(st))
    /\ Saw(<<CTRL_A>>)

KeyCtrlE ==
    /\ pc = "edit"
    /\ Edited(tty_edit_move_end(st))
    /\ Saw(<<CTRL_E>>)

\* CTRL+L: tty_clear_screen writes to the terminal only.
KeyCtrlL ==
    /\ pc = "edit"
    /\ Edited(st)
    /\ Saw(<<CTRL_L>>)

KeyCtrlW ==
    /\ pc = "edit"
    /\ Edited(tty_edit_delete_previous_word(st))
    /\ Saw(<<CTRL_W>>)

\* ------------------------------------------------------ history browsing
\* The ups counter after one more history-older press.
UpsAfterOlder == IF ups >= 0 /\ ups < MaxUps THEN ups + 1 ELSE -1

\* tty_edit_history_next applied to the session with history h: the buffer,
\* cursor and global index it sets, or the IndexError it raises.
Browse(h, previous, nfirst) ==
    LET r == tty_edit_history_next(st, h, history_index, previous)
    IN  IF r.err
        THEN /\ history' = h
             /\ history_index' = r.history_index
             /\ Raise("index")
             /\ UNCHANGED <<calls_left, completion_callback, hist0, committed>>
        ELSE /\ history' = h
             /\ history_index' = r.history_index
             /\ buf' = r.buf /\ pos' = r.pos
             /\ first' = nfirst
             /\ ups' = IF previous THEN UpsAfterOlder ELSE -1
             /\ bsaved' = IF bsaved = <<>> THEN <<buf>> ELSE bsaved
             /\ EditFrame

\* CTRL+P: tty_edit_history_next(state, previous=True), no checkpoint.
KeyCtrlP ==
    /\ pc = "edit"
    /\ Browse(history, TRUE, first)
    /\ Saw(<<CTRL_P>>)

\* CTRL+N: tty_edit_history_next(state, previous=False), no checkpoint.
KeyCtrlN ==
    /\ pc = "edit"
    /\ Browse(history, FALSE, first)
    /\ Saw(<<CTRL_N>>)

\* The Up and Down arrows: when state.first, history[0] = state.buf and
\* state.first = False; then tty_edit_history_next.
ArrowBrowse(previous) ==
    Browse(IF first THEN [history EXCEPT ![1] = buf] ELSE history, previous, FALSE)

\* --------------------------------------------------- the escape sequences
\* The byte sequences read after ESC, as <<esc1, esc2, esc3>>; each is what
\* read_decode gave, <<>> for no byte, and esc3 is read after a digit only.
\* The arrows, Home and End as CSI and SS3, Delete (ESC [ 3 ~), a CSI with a
\* parameter that ends in a letter, and tails that are no sequence at all.
EscTails ==
    {<< <<LBRACKET>>, <<LETTER_A>>, <<>> >>, << <<LBRACKET>>, <<LETTER_B>>, <<>> >>,
     << <<LBRACKET>>, <<LETTER_C>>, <<>> >>, << <<LBRACKET>>, <<LETTER_D>>, <<>> >>,
     << <<LBRACKET>>, <<LETTER_H>>, <<>> >>, << <<LBRACKET>>, <<LETTER_F>>, <<>> >>,
     << <<LETTER_O>>, <<LETTER_H>>, <<>> >>, << <<LETTER_O>>, <<LETTER_F>>, <<>> >>,
     << <<LBRACKET>>, <<DIGIT_3>>, <<TILDE>> >>,
     << <<LBRACKET>>, <<DIGIT_3>>, <<LETTER_A>> >>,
     << <<LBRACKET>>, <<LOWER_A>>, <<>> >>, << <<LETTER_O>>, <<LETTER_A>>, <<>> >>,
     << <<LOWER_A>>, <<LOWER_A>>, <<>> >>, << <<>>, <<>>, <<>> >>}

IsDigit(e) == e # <<>> /\ DIGIT_0 <= e[1] /\ e[1] <= DIGIT_9

\* ESC: esc1 and esc2 are read, and esc3 after a digit; the branches of
\* tty_edit on e = <<esc1, esc2, esc3>>.  (The Delete branch tests
\* esc1 == '3'.)
EscOn(e) ==
    /\ Saw(<<ESC>> \o e[1] \o e[2] \o e[3])
    /\   LET esc1 == e[1]
             esc2 == e[2]
             esc3 == e[3]
         IN
         IF esc1 = <<LBRACKET>>
         THEN IF IsDigit(esc2)
              THEN IF esc3 = <<TILDE>>
                   THEN IF esc1 = <<DIGIT_3>>
                        THEN Edited(tty_edit_delete(st))
                        ELSE Edited(st)
                   ELSE Edited(st)
              ELSE IF esc2 = <<LETTER_A>> THEN ArrowBrowse(TRUE)
              ELSE IF esc2 = <<LETTER_B>> THEN ArrowBrowse(FALSE)
              ELSE IF esc2 = <<LETTER_C>> THEN Edited(tty_edit_move_right(st))
              ELSE IF esc2 = <<LETTER_D>> THEN Edited(tty_edit_move_left(st))
              ELSE IF esc2 = <<LETTER_H>> THEN Edited(tty_edit_move_home(st))
              ELSE IF esc2 = <<LETTER_F>> THEN Edited(tty_edit_move_end(st))
              ELSE Edited(st)
         ELSE IF esc1 = <<LETTER_O>>
              THEN IF esc2 = <<LETTER_H>> THEN Edited(tty_edit_move_home(st))
                   ELSE IF esc2 = <<LETTER_F>> THEN Edited(tty_edit_move_end(st))
                   ELSE Edited(st)
              ELSE Edited(st)

\* ESC followed by one of EscTails.
KeyEsc == pc = "edit" /\ \E e \in EscTails : EscOn(e)

\* Sequences of more than three bytes after ESC, as terminals send them in
\* one burst: ESC [ 1 ; 5 C (Ctrl+Right) and ESC [ 1 5 ; 2 ~ (Shift+F5).
LongTails ==
    {<<LBRACKET, DIGIT_1, SEMICOLON, DIGIT_5, LETTER_C>>,
     <<LBRACKET, DIGIT_1, DIGIT_5, SEMICOLON, DIGIT_2, TILDE>>}

\* tty_edit_insert of the characters of cs, one after the other.
RECURSIVE InsertAll(_, _)
InsertAll(s, cs) ==
    IF cs = <<>> THEN s ELSE InsertAll(tty_edit_insert(s, Head(cs)), Tail(cs))

\* ESC followed by one of LongTails.  The ESC branch reads esc1 = '[', esc2 a
\* digit and esc3, which is not '~', and does nothing; the bytes after esc3
\* are still in the input, the next iterations of the loop read them one by
\* one, and each, being no key the loop knows, goes to the else branch:
\* state.first = True, tty_edit_insert (every write succeeding).
KeyEscLong ==
    /\ pc = "edit"
    /\ \E t \in LongTails :
         LET rest == SubSeq(t, 4, Len(t))
             ns == InsertAll(st, rest)
         IN  /\ Len(buf) + Len(rest) <= MaxKeysLen
             /\ Saw(<<ESC>> \o t)
             /\ buf' = ns.buf /\ pos' = ns.pos
             /\ first' = TRUE
             /\ ups' = -1 /\ bsaved' = <<>>
             /\ UNCHANGED hist
             /\ EditFrame

\* ------------------------------------------------------------- inserting
\* Any other character: state.first = True, tty_edit_insert.  On the fast
\* path (append, the line fits, no hints) the character is written directly,
\* and a write that gives -1 ends the session with (state.buf, False).
KeyInsertUpTo(n) ==
    /\ pc = "edit"
    /\ Len(buf) < n
    /\ \E c \in Chars \cup (IF completion_callback THEN {} ELSE {TAB}),
          wfail \in BOOLEAN :
         LET ns == tty_edit_insert(st, c)
         IN  IF wfail /\ pos = Len(buf) /\ Len(prompt) + Len(ns.buf) < cols
             THEN /\ Return(ns.buf, FALSE, "insertfail")
                  /\ Saw(<<c>>)
                  /\ UNCHANGED <<calls_left, hist, completion_callback, hist0,
                                 committed>>
             ELSE /\ buf' = ns.buf /\ pos' = ns.pos
                  /\ first' = TRUE
                  /\ ups' = -1 /\ bsaved' = <<>>
                  /\ Saw(<<c>>)
                  /\ UNCHANGED hist
                  /\ EditFrame

\* The user types lines of up to MaxLen characters.
KeyInsert == KeyInsertUpTo(MaxLen)

\* The user types lines of up to MaxFullLen characters.
KeyInsertShort == KeyInsertUpTo(MaxFullLen)

\* The user types lines of up to MaxKeysLen characters.
KeyInsertKeys == KeyInsertUpTo(MaxKeysLen)

\* The user types lines of up to MaxWideLen characters.
KeyInsertWide == KeyInsertUpTo(MaxWideLen)

\* ------------------------------------------------------------ completing
\* TAB with a completion source registered: complete_line up to its first
\* read.  An empty buffer or no candidate: beep, back to the edit loop.
KeyTab ==
    /\ pc = "edit"
    /\ completion_callback
    /\ Saw(<<TAB>>)
    /\ IF Len(buf) = 0
       THEN Edited(st)
       ELSE \E cv \in CandidateLists :
              IF Len(cv) = 0
              THEN Edited(st)
              ELSE LET shown == complete_preview(st, cv, 0)
                   IN  /\ pc' = "complete"
                       /\ cvec' = cv /\ ci' = 0 /\ saved' = st /\ tabs' = 0
                       /\ orig' = st /\ comp_exit' = "none"
                       /\ buf' = shown.buf /\ pos' = shown.pos
                       /\ ups' = -1 /\ bsaved' = <<>>
                       /\ UNCHANGED <<ret, calls_left, term, hist,
                                      completion_callback, first, prompt, cols,
                                      probe,
                                      hist0, committed>>

CompleteFrame ==
    UNCHANGED <<ret, calls_left, term, hist, completion_callback, first, prompt,
                cols, probe, hist0, committed, ups, bsaved>>

\* Back in the edit loop: the locals of complete_line are gone.
LeaveComplete(how) ==
    /\ pc' = "edit"
    /\ cvec' = <<>> /\ ci' = 0 /\ saved' = NoSaved /\ tabs' = -1
    /\ comp_exit' = how
    /\ UNCHANGED orig

\* TAB in the preview loop: i = (i + 1) % (N + 1), then the next rendering.
CompleteTab ==
    /\ pc = "complete"
    /\ LET ni == complete_cycle(ci, Len(cvec))
           shown == complete_preview(st, cvec, ni)
       IN  /\ ci' = ni
           /\ saved' = IF ni < Len(cvec) THEN st ELSE saved
           /\ buf' = shown.buf /\ pos' = shown.pos
    /\ tabs' = IF tabs >= 0 /\ tabs < MaxTabs THEN tabs + 1 ELSE -1
    /\ UNCHANGED <<pc, cvec, orig, comp_exit>>
    /\ Saw(<<TAB>>)
    /\ CompleteFrame

\* ESC in the preview loop: stop; complete_line returns ESC, tty_edit continues.
CompleteEscape ==
    /\ pc = "complete"
    /\ LeaveComplete("escape")
    /\ Saw(<<ESC>>)
    /\ UNCHANGED <<buf, pos>>
    /\ CompleteFrame

\* The keys that are neither TAB nor ESC.
OtherKeys == Chars \cup {ENTER, CTRL_C, CTRL_D, CTRL_U, BACKSPACE}

\* The same with the key dispatched to the else branch of tty_edit after the
\* candidate is taken: the key is inserted.
CompleteOtherDispatched ==
    /\ pc = "complete"
    /\ \E c \in OtherKeys :
         /\ Saw(<<c>>)
         /\ LET s == IF ci < Len(cvec)
                     THEN [buf |-> cvec[ci + 1], pos |-> Len(cvec[ci + 1])]
                     ELSE st
            IN  /\ buf' = tty_edit_insert(s, c).buf
                /\ pos' = tty_edit_insert(s, c).pos
    /\ LeaveComplete("other")
    /\ CompleteFrame

\* Any other key in the preview loop: with i < N candidate i becomes the
\* buffer; complete_line returns the key and tty_edit continues with the
\* next read.
CompleteOther ==
    /\ pc = "complete"
    /\ \E c \in OtherKeys :
         /\ Saw(<<c>>)
         /\ IF ci < Len(cvec)
            THEN buf' = cvec[ci + 1] /\ pos' = Len(cvec[ci + 1])
            ELSE UNCHANGED <<buf, pos>>
    /\ LeaveComplete("other")
    /\ CompleteFrame

\* read_decode returns no byte in the preview loop: complete_line returns ''
\* and tty_edit returns '', True.
CompleteZero ==
    /\ pc = "complete"
    /\ Return(<<>>, TRUE, "complete_eof")
    /\ Saw(<<>>)
    /\ UNCHANGED <<calls_left, hist, completion_callback, hist0, committed>>

\* ------------------------------------------------------ the specification
\* Every step but the insertion of a typed character.
Common ==
    \/ TtyRaw
    \/ ProcessExit
    \/ ReadZero
    \/ ReadUndecodable
    \/ KeyEnter
    \/ KeyCtrlC
    \/ KeyBackspace
    \/ KeyCtrlD
    \/ KeyCtrlT
    \/ KeyCtrlB
    \/ KeyCtrlF
    \/ KeyCtrlP
    \/ KeyCtrlN
    \/ KeyEsc
    \/ KeyCtrlU
    \/ KeyCtrlK
    \/ KeyCtrlA
    \/ KeyCtrlE
    \/ KeyCtrlL
    \/ KeyCtrlW
    \/ KeyTab
    \/ CompleteTab
    \/ CompleteEscape
    \/ CompleteOther
    \/ CompleteZero

Next == Common \/ KeyInsert

\* At the capacity of the history the user presses the keys that end a
\* session or touch the history (the scratch push, the checkpoint, browsing,
\* the commit) and types, erases and clears short lines.
NextFull ==
    \/ TtyRaw
    \/ ProcessExit
    \/ ReadZero
    \/ ReadUndecodable
    \/ KeyEnter
    \/ KeyCtrlC
    \/ KeyBackspace
    \/ KeyCtrlD
    \/ KeyCtrlP
    \/ KeyCtrlN
    \/ KeyEsc
    \/ KeyCtrlU
    \/ KeyInsertShort

\* On a terminal of any kind the user types, erases, moves the cursor and has
\* the line redrawn.
NextProbe ==
    \/ TtyRawAny
    \/ ProcessExit
    \/ ReadZero
    \/ KeyBackspace
    \/ KeyCtrlB
    \/ KeyCtrlF
    \/ KeyCtrlA
    \/ KeyCtrlE
    \/ KeyCtrlL
    \/ KeyInsertWide

\* The user types, moves the cursor, swaps and deletes characters, sends
\* escape sequences and browses with the arrows.
NextKeys ==
    \/ TtyRaw
    \/ ProcessExit
    \/ ReadZero
    \/ KeyCtrlD
    \/ KeyCtrlT
    \/ KeyCtrlB
    \/ KeyCtrlF
    \/ KeyEsc
    \/ KeyInsertKeys

\* The user types, moves the cursor to the left and sends escape sequences,
\* long ones included.
NextEsc ==
    \/ TtyRaw
    \/ ProcessExit
    \/ ReadZero
    \/ KeyCtrlB
    \/ KeyEsc
    \/ KeyEscLong
    \/ KeyInsertShort

\* One call after "a" was committed, single keys observed.
InitKeys ==
    InitWith([history |-> <<<<LOWER_A>>>>, history_index |-> 0, calls |-> 1],
             NoKey)

\* One call from a freshly loaded module.
InitProbe == InitFrom([history |-> <<>>, history_index |-> 0, calls |-> 1])

\* The line editor driven from StartStates.
Spec == Init /\ [][Next]_vars

\* The line editor driven from FullStartStates, the history at its capacity.
SpecFull == InitFull /\ [][NextFull]_vars

\* The line editor with single keys observed.
SpecKeys == InitKeys /\ [][NextKeys]_vars

\* The line editor with single keys observed, under escape sequences.
SpecEsc == InitKeys /\ [][NextEsc]_vars

\* The line editor on terminals of every kind.
SpecProbe == InitProbe /\ [][NextProbe]_vars

\* ------------------------------------------------------------ the claims

\* C1: when a session is ended by Enter, the line-read call returns
\* (line, ok) with ok true and line the buffer content at the moment of Enter
\* (the head of committed).
C1_EnterReturnsBuffer ==
    ret.how = "enter" => (ret.ok /\ ret.line = committed[1])

\* C2: after every operation of a session the cursor is inside the buffer,
\* 0 <= cursor <= len(buffer).
C2_CursorInBuffer == 0 <= pos /\ pos <= Len(buf)

\* A session that has browsed to an older entry with an arrow and then moved
\* the cursor into the middle of a buffer of two or more characters.
C2_Witness ==
    /\ pc = "edit"
    /\ history_index > 0 /\ ~first
    /\ Len(buf) >= 2 /\ 0 < pos /\ pos < Len(buf)

\* C3: on every path by which a line-read call that enabled raw mode ends,
\* raw mode is no longer active and the terminal attributes equal the
\* snapshot captured before raw mode was enabled.
C3_RawModeRestored ==
    (pc \in {"idle", "exited"} /\ ret.kind \in {"return", "raise", "exit"}
        /\ ret.how # "notty")
    => (rawmode = FALSE /\ termios_attr = origin_termios)

\* C4: the history list never holds more than 100 entries.
C4_HistoryBounded == Len(history) <= HISTORY_MAX_LENGTH

\* A session that started with the history at its capacity, pushed its
\* scratch entry, and committed a line: the history is at its capacity still.
C4_Witness ==
    /\ ret.how = "enter"
    /\ Len(hist0) = HISTORY_MAX_LENGTH
    /\ Len(history) = HISTORY_MAX_LENGTH
    /\ committed[1] # <<>>

\* C5: a push onto a history of 100 entries whose most recent entry differs
\* from the line drops the oldest entry: the result is the line followed by
\* the 99 most recent previous entries.  (The push is the scratch push of a
\* session that has read no key yet.)
C5_PushDropsOldest ==
    (pc = "edit" /\ ups = 0 /\ Len(hist0) = HISTORY_MAX_LENGTH /\ hist0[1] # <<>>)
    => history = <<<<>>>> \o SubSeq(hist0, 1, HISTORY_MAX_LENGTH - 1)

\* push(line) as the claims describe it: nothing on a repeat of the most
\* recent entry, else the line in front, the oldest entry dropped at capacity.
ClaimedPush(line, h) ==
    IF Len(h) > 0 /\ h[1] = line
    THEN h
    ELSE IF Len(h) = HISTORY_MAX_LENGTH
         THEN <<line>> \o SubSeq(h, 1, HISTORY_MAX_LENGTH - 1)
         ELSE <<line>> \o h

\* C6: when a session commits line L with Enter, the history afterwards is
\* the history as it was before the session with L pushed on the front.
C6_CommitPushesOnce ==
    ret.how = "enter" => history = ClaimedPush(committed[1], hist0)

\* No two consecutive lines of s are equal.
ConsecutiveDistinct(s) == \A k \in 1..(Len(s) - 1) : s[k] # s[k + 1]

\* C7: in a session started after lines l1..lk were committed (consecutive
\* lines distinct, k < 100), after j history-older presses and nothing else
\* the buffer is the j-th most recently committed line, and the oldest line
\* for j > k.
C7_OlderShowsCommitted ==
    (/\ pc = "edit"
     /\ ups >= 1
     /\ Len(committed) >= 1
     /\ Len(committed) < HISTORY_MAX_LENGTH
     /\ ConsecutiveDistinct(committed))
    => buf = committed[Min(ups, Len(committed))]

\* C8: after a first browse with typed, unsaved text B in the buffer and any
\* number of further browse presses with no other key in between, whenever
\* the browse position is back at index 0 the buffer is B.
C8_BrowseBackRestores ==
    (pc = "edit" /\ bsaved # <<>> /\ bsaved # <<<<>>>> /\ history_index = 0)
    => buf = bsaved[1]

\* C9: in the preview loop with N >= 1 candidates the index is 0 at the
\* first preview and (number of Tab presses) mod (N + 1) after: it is N, the
\* "no candidate" state, after exactly N presses and not before, and 0 again
\* after one more.
C9_CompletionCycle ==
    (pc = "complete" /\ tabs >= 0)
    => LET N == Len(cvec)
       IN  /\ N >= 1
           /\ ci = tabs % (N + 1)
           /\ (tabs < N => ci < N)
           /\ (tabs = N => ci = N)
           /\ (tabs = N + 1 => ci = 0)

\* A preview of two candidates after three Tab presses: through the "no
\* candidate" state at the second press and back to candidate 0.
C9_Witness ==
    pc = "complete" /\ Len(cvec) = 2 /\ tabs = 3 /\ ci = 0

\* C10: when Escape ends the preview loop the buffer and the cursor are what
\* they were when Tab started the completion, and the session is editing.
C10_EscapeRestores ==
    comp_exit = "escape" => (pc = "edit" /\ st = orig)

\* Escape pressed on a completion started with the cursor inside a buffer
\* of two characters (every candidate preview ends with the cursor at the
\* end of the candidate).
C10_Witness ==
    comp_exit = "escape" /\ pc = "edit" /\ Len(buf) = 2 /\ pos = 1

\* The cursor-position fallback of get_columns fails on terminal t: a query
\* or the move to the right margin is not written whole, or a query gets no
\* reply that parses.
FallbackFails(t) ==
    \/ get_cursor_position(t.w1, t.r1).kind # "str"
    \/ t.wr # LEN_RIGHT
    \/ get_cursor_position(t.w2, t.r2).kind # "str"

\* C11: get_columns gives the session 80 columns whenever the window-size
\* query answers (it never gives a width but 0) and a step of the
\* cursor-position fallback fails.
C11_FallbackGives80 ==
    (pc = "edit" /\ probe.ioctl /\ FallbackFails(probe)) => cols = 80

\* C12: for every prompt, buffer, cursor inside the buffer and width, both
\* loops of the renderer end, and the window they leave has
\* len(prompt) + visible_length <= columns and
\* len(prompt) + cursor_offset < columns.
C12_WindowFits ==
    (pc = "edit" /\ 0 <= pos /\ pos <= Len(buf))
    => /\ refresh_line.done
       /\ Len(prompt) + refresh_line.length <= cols
       /\ Len(prompt) + refresh_line.pos < cols

\* A line of three characters behind the prompt "$> " on a terminal found 4
\* columns wide, the cursor after the first character: the first loop moves
\* the window one character to the right and the second cuts it.
C12_Witness ==
    /\ pc = "edit" /\ cols = 4 /\ Len(prompt) = 3
    /\ Len(buf) = 3 /\ pos = 1
    /\ refresh_line.i = 1 /\ refresh_line.length = 1 /\ refresh_line.pos = 0

\* C13: a read that gives no byte, in the edit loop or in the completion
\* preview loop, is end of input: the session ends and the call returns
\* ok = false.
C13_ZeroReadIsEof ==
    ret.how \in {"eof", "complete_eof"}
    => (pc \in {"idle", "exited"} /\ ret.kind = "return" /\ ~ret.ok)

\* C14: the Delete key, ESC [ 3 ~, removes the character at the cursor and
\* leaves the cursor where it is when the cursor is before the end of the
\* buffer, and changes nothing at the end: what Ctrl-D does on a non-empty
\* buffer.
C14_DeleteKeyDeletes ==
    (pc = "edit" /\ last.keys = <<ESC, LBRACKET, DIGIT_3, TILDE>>)
    => /\ pos = last.pos
       /\ buf = IF last.pos < Len(last.buf)
                THEN SubSeq(last.buf, 1, last.pos)
                     \o SubSeq(last.buf, last.pos + 2, Len(last.buf))
                ELSE last.buf
       /\ (Len(last.buf) > 0
           => buf = tty_edit_delete([buf |-> last.buf, pos |-> last.pos]).buf)

\* C15: when a key other than Tab and Escape is read in the preview loop
\* with i < N, the buffer becomes candidate i with the cursor at its end,
\* the session is editing again, and the key does nothing more: no line is
\* committed, nothing is returned, no character is inserted.
C15_OtherKeyTakesCandidate ==
    [][(pc = "complete" /\ ci < Len(cvec) /\ comp_exit' = "other")
       => /\ pc' = "edit"
          /\ buf' = cvec[ci + 1]
          /\ pos' = Len(cvec[ci + 1])
          /\ UNCHANGED <<history, history_index, committed, ret, rawmode>>]_vars

\* "a" was typed, Tab and Tab again showed the second candidate "a ", and
\* another key took it.
C15_Witness ==
    /\ pc = "edit" /\ comp_exit = "other"
    /\ orig.buf = <<LOWER_A>>
    /\ buf = <<LOWER_A, SPACE>> /\ pos = 2

\* The bytes t after ESC are a sequence the editor knows: CSI and one of
\* A B C D H F, CSI and digits and '~', SS3 and H or F.
Recognized(t) ==
    \/ /\ Len(t) = 2 /\ t[1] = LBRACKET
       /\ t[2] \in {LETTER_A, LETTER_B, LETTER_C, LETTER_D, LETTER_H, LETTER_F}
    \/ /\ Len(t) >= 3 /\ t[1] = LBRACKET /\ t[Len(t)] = TILDE
       /\ \A k \in 2..(Len(t) - 1) : DIGIT_0 <= t[k] /\ t[k] <= DIGIT_9
    \/ /\ Len(t) = 2 /\ t[1] = LETTER_O /\ t[2] \in {LETTER_H, LETTER_F}

\* C16: an escape sequence that is not a recognized one, a CSI sequence
\* with several digits or several parameters included, is discarded as a
\* whole: the buffer, the cursor and the history are what they were before
\* it, and none of its bytes is in the buffer.
C16_UnknownEscapeDiscarded ==
    (/\ pc = "edit"
     /\ Len(last.keys) > 1
     /\ last.keys[1] = ESC
     /\ ~Recognized(Tail(last.keys)))
    => (buf = last.buf /\ pos = last.pos /\ history = last.history)

\* A history browse: Ctrl-P, Ctrl-N, the Up or the Down arrow.  (Such a step
\* records the buffer in bsaved or ends the call with the IndexError.)
BrowseKey ==
    /\ pc = "edit"
    /\ (bsaved' # <<>> \/ ret'.how = "index")
    /\ \/ KeyCtrlP
       \/ KeyCtrlN
       \/ EscOn(<< <<LBRACKET>>, <<LETTER_A>>, <<>> >>)
       \/ EscOn(<< <<LBRACKET>>, <<LETTER_B>>, <<>> >>)

\* C17: whatever sessions came before, a history browse leaves the history
\* index within [0, len(history) - 1] and the buffer equal to the entry at
\* that index, the cursor at its end, and reads nothing outside the list (no
\* IndexError ends the call); with fewer than 2 entries in the history it
\* changes neither the index nor the buffer nor the cursor.
C17_BrowseInRange ==
    [][BrowseKey
       => /\ pc' = "edit"
          /\ 0 <= history_index' /\ history_index' <= Len(history') - 1
          /\ IF Len(history) > 1
             THEN buf' = history'[history_index' + 1] /\ pos' = Len(buf')
             ELSE UNCHANGED <<history_index, buf, pos>>]_vars

\* A session that began with the index left at 1 by the session before
\* (history [" ", "a"], then the scratch entry) and browsed up to the oldest
\* entry.
C17_Witness ==
    /\ pc = "edit" /\ bsaved # <<>>
    /\ Len(hist0) = 2 /\ Len(history) = 3
    /\ history_index = 2 /\ buf = <<LOWER_A>>

\* C18: Ctrl-T with 0 < cursor < len(buffer) exchanges the characters at
\* cursor - 1 and cursor, leaves every other character and the length alone,
\* and moves the cursor one to the right unless cursor = len(buffer) - 1,
\* where it stays; with the cursor at 0 or at len(buffer) it changes nothing.
C18_SwapAtCursor ==
    (pc = "edit" /\ last.keys = <<CTRL_T>>)
    => LET b == last.buf
           p == last.pos
       IN  IF 0 < p /\ p < Len(b)
           THEN /\ Len(buf) = Len(b)
                /\ buf[p] = b[p + 1]
                /\ buf[p + 1] = b[p]
                /\ \A k \in (1..Len(b)) \ {p, p + 1} : buf[k] = b[k]
                /\ pos = IF p = Len(b) - 1 THEN p ELSE p + 1
           ELSE buf = b /\ pos = p

\* Ctrl-T on "a a" with the cursor at 1: " aa", the cursor at 2.
C18_Witness ==
    /\ pc = "edit" /\ last.keys = <<CTRL_T>>
    /\ last.buf = <<LOWER_A, SPACE, LOWER_A>> /\ last.pos = 1
    /\ buf = <<SPACE, LOWER_A, LOWER_A>> /\ pos = 2

\* C19: a session that ends without a commit, by Ctrl-D on an empty buffer
\* or by a read that gives no byte, leaves the history as it was before the
\* session, whatever was typed or browsed: no scratch entry and no
\* uncommitted text stays in it.
C19_NoCommitKeepsHistory ==
    ret.how \in {"eof", "ctrld"} => history = hist0

\* C20: for every prompt, buffer, cursor and width a session reaches, the
\* window of the renderer is a slice of the buffer that holds the cursor:
\* start >= 0, visible_length >= 0, start + visible_length <= len(buffer)
\* and 0 <= cursor_offset <= visible_length, also when
\* len(prompt) >= columns.  (The states looked at are those after a key:
\* Ctrl-L redraws the line in every one of them.)
C20_WindowIsSlice ==
    (pc = "edit" /\ ups # 0)
    => /\ refresh_line.i >= 0
       /\ refresh_line.length >= 0
       /\ refresh_line.i + refresh_line.length <= Len(buf)
       /\ 0 <= refresh_line.pos
       /\ refresh_line.pos <= refresh_line.length

====
